---- MODULE Spec2Model ----
(***************************************************************************)
(* Task-manager REST API (src/src/app.py, models.py, utils.py).           *)
(*                                                                         *)
(* State: the two SQLite tables the routes use (user, task), the wall      *)
(* clock that token expiry is measured against, the bearer token the       *)
(* client was last issued, register requests that are between their        *)
(* existence check and their commit, the request being answered with its   *)
(* response, and (history only) the task ids whose DELETE succeeded.       *)
(*                                                                         *)
(* One action per route; each action runs the dependency get_current_user  *)
(* and then the handler body, commit included, and leaves the response in  *)
(* last until Deliver closes the request.  Spec serves the requests one    *)
(* after another, SpecConc lets /register be overtaken between its check   *)
(* and its commit, SpecHistory is Spec with the deletions remembered.      *)
(***************************************************************************)
EXTENDS Integers, FiniteSets, Sequences, TLC

VARIABLES users, tasks, now, held, pending, deleted, last

vars == <<users, tasks, now, held, pending, deleted, last>>

-----------------------------------------------------------------------------
(* Bounds of the model *)

MaxUsers == 2
MaxTaskId == 2
MaxTime == 2
MaxPending == 2

(* Inputs *)

Emails == {"a@x.io", "b@x.io"}
Passwords == {"hunter22", "letmein1"}
Titles == {"Buy milk", "Pay rent"}
UserIds == 1 .. MaxUsers
TaskIds == 1 .. MaxTaskId
Omitted == "omitted"

(* utils.py: ACCESS_TOKEN_EXPIRE_MINUTES, read from the environment *)
ACCESS_TOKEN_EXPIRE_MINUTES == 1

-----------------------------------------------------------------------------
(* models.py *)

(* LoginInput: the request body of /login and /register *)
LoginInput == [email : Emails, password : Passwords]

(* The JSON body of POST /tasks/ and PUT /tasks/{id}; completed may be left out *)
TaskJson == [title : Titles, completed : {Omitted, "true"}, user_id : UserIds]

(* InputTask.model_dump() of the parsed body: completed defaults to False *)
InputTask(json) ==
    [title |-> json.title,
     completed |-> IF json.completed = Omitted THEN FALSE ELSE json.completed = "true",
     user_id |-> json.user_id]

(* A task row built from a dumped InputTask and its primary key; also the *)
(* row's to_dict and the OutputTask made of it                            *)
TaskDB(id, dump) ==
    [id |-> id, title |-> dump.title, completed |-> dump.completed, user_id |-> dump.user_id]

UserDB(id, email, password_hash) ==
    [id |-> id, email |-> email, password_hash |-> password_hash]

SetMax(S) == CHOOSE m \in S : \A x \in S : x <= m

(* INTEGER PRIMARY KEY without AUTOINCREMENT: SQLite gives a new row the largest *)
(* id in the table plus one, so the id of a deleted last row is given out again  *)
NextRowId(rows) == IF rows = {} THEN 1 ELSE SetMax({r.id : r \in rows}) + 1

(* db.query(X).filter(...).first(): <<row>> for the matching row with the least *)
(* id, <<>> for None                                                            *)
First(rows) ==
    IF rows = {} THEN <<>>
    ELSE <<CHOOSE r \in rows : \A q \in rows : r.id <= q.id>>

-----------------------------------------------------------------------------
(* utils.py *)

(* bcrypt digest of a password: not the password itself *)
hash_pwd(pwd) == [scheme |-> "bcrypt", digest |-> <<"H", pwd>>]

verify_pwd(pwd, pwd_hash) == pwd_hash = hash_pwd(pwd)

(* str(id) and int(sub) *)
Digits == <<"1", "2", "3", "4", "5", "6", "7", "8", "9">>
Str(n) == Digits[n]
IsNumeral(s) == \E n \in DOMAIN Digits : Digits[n] = s
ParseInt(s) == CHOOSE n \in DOMAIN Digits : Digits[n] = s

(* jwt.encode({"sub": str(id), "exp": now + minutes}, SECRET_KEY, ALGORITHM) at time t *)
create_token(id, t) ==
    [sub |-> Str(id), exp |-> t + ACCESS_TOKEN_EXPIRE_MINUTES, sig |-> "SECRET_KEY"]

(* What a client can present that the server did not sign *)
Malformed == [sub |-> "", exp |-> 0, sig |-> "garbage"]
Tamper(tok) == [tok EXCEPT !.sig = "other key"]

(* decode_token with the exp claim read before the signature is verified *)
decode_token_exp_first(token, t) ==
    IF token.exp < t THEN [error |-> "ExpiredSignatureError", sub |-> ""]
    ELSE IF token.sig # "SECRET_KEY" THEN [error |-> "JWTError", sub |-> ""]
    ELSE [error |-> "", sub |-> token.sub]

(* jwt.decode: the signature is verified first, then the exp claim *)
decode_token(token, t) ==
    IF token.sig # "SECRET_KEY" THEN [error |-> "JWTError", sub |-> ""]
    ELSE IF token.exp < t THEN [error |-> "ExpiredSignatureError", sub |-> ""]
    ELSE [error |-> "", sub |-> token.sub]

-----------------------------------------------------------------------------
(* app.py: the database the engine opens *)

(* create_engine("sqlite:///tasks.db") sets no PRAGMA foreign_keys, so SQLite *)
(* does not check ForeignKey("user.id") when a task row is written            *)
ForeignKeysEnforced == FALSE

(* insert_user with the column email not declared unique *)
insert_user_not_unique(U, email, password_hash) ==
    [error |-> "", users |-> U \cup {UserDB(NextRowId(U), email, password_hash)},
     id |-> NextRowId(U)]

(* INSERT of a user row at db.commit(): the column email is unique=True *)
insert_user(U, email, password_hash) ==
    IF \E u \in U : u.email = email
    THEN [error |-> "IntegrityError", users |-> U, id |-> 0]
    ELSE [error |-> "", users |-> U \cup {UserDB(NextRowId(U), email, password_hash)},
          id |-> NextRowId(U)]

(* Whether a write of task row t passes the constraints the database checks *)
task_row_accepted(t, U) ==
    ForeignKeysEnforced => \E u \in U : u.id = t.user_id

-----------------------------------------------------------------------------
(* app.py: dependencies and handlers.  A handler's result is the status     *)
(* code, the detail of the HTTPException (or ""), the tasks of the response *)
(* body, and the table as committed.                                        *)

Reply(status, detail, out, T) ==
    [status |-> status, detail |-> detail, out |-> out, tasks |-> T]

get_current_user(token, U, t) ==
    LET d == decode_token(token, t)
        found == First({u \in U : u.id = ParseInt(d.sub)})
    IN  IF d.error = "ExpiredSignatureError"
        THEN [status |-> 401, detail |-> "Token expired", user |-> <<>>]
        ELSE IF d.error = "JWTError"
        THEN [status |-> 401, detail |-> "Invalid token", user |-> <<>>]
        ELSE IF d.sub = ""
        THEN [status |-> 401, detail |-> "Invalid token payload", user |-> <<>>]
        ELSE IF ~IsNumeral(d.sub)
        THEN [status |-> 500, detail |-> "ValueError", user |-> <<>>]
        ELSE IF found = <<>>
        THEN [status |-> 401, detail |-> "Error fetching user", user |-> <<>>]
        ELSE [status |-> 200, detail |-> "", user |-> found]

get_task(task_id, user, T) ==
    LET task == First({t \in T : t.id = task_id})
    IN  IF task = <<>>
        THEN Reply(404, "Unable to find task", <<>>, T)
        ELSE IF task[1].user_id # user.id
        THEN Reply(403, "Not authorized to access this task", <<>>, T)
        ELSE Reply(200, "", task, T)

(* create_task with the ownership test ahead of the lookup of the named user *)
create_task_owner_first(json, user, U, T) ==
    LET task == InputTask(json)
        userdb == First({u \in U : u.id = task.user_id})
        new_task == TaskDB(NextRowId(T), task)
    IN  IF user.id # task.user_id
        THEN Reply(403, "Not authorized to create task for this user", <<>>, T)
        ELSE IF userdb = <<>>
        THEN Reply(422, "User does not exist", <<>>, T)
        ELSE Reply(201, "", <<new_task>>, T \cup {new_task})

create_task(json, user, U, T) ==
    LET task == InputTask(json)
        userdb == First({u \in U : u.id = task.user_id})
        new_task == TaskDB(NextRowId(T), task)
    IN  IF userdb = <<>>
        THEN Reply(422, "User does not exist", <<>>, T)
        ELSE IF user.id # task.user_id
        THEN Reply(403, "Not authorized to create task for this user", <<>>, T)
        ELSE IF ~task_row_accepted(new_task, U)
        THEN Reply(500, "IntegrityError", <<>>, T)
        ELSE Reply(201, "", <<new_task>>, T \cup {new_task})

(* delete_task with db.delete and db.commit ahead of the ownership test *)
delete_task_then_check(task_id, user, T) ==
    LET task == First({t \in T : t.id = task_id})
    IN  IF task = <<>>
        THEN Reply(404, "Task does not exist.", <<>>, T)
        ELSE IF task[1].user_id # user.id
        THEN Reply(403, "Not authorized to delete this task", <<>>, T \ {task[1]})
        ELSE Reply(202, "", task, T \ {task[1]})

delete_task(task_id, user, T) ==
    LET task == First({t \in T : t.id = task_id})
    IN  IF task = <<>>
        THEN Reply(404, "Task does not exist.", <<>>, T)
        ELSE IF task[1].user_id # user.id
        THEN Reply(403, "Not authorized to delete this task", <<>>, T)
        ELSE Reply(202, "", task, T \ {task[1]})

(* update_task without the ownership test *)
update_task_any_owner(task_id, json, user, U, T) ==
    LET prev_task == First({t \in T : t.id = task_id})
        updated == TaskDB(task_id, InputTask(json))
    IN  IF prev_task = <<>>
        THEN Reply(404, "Task does not exist.", <<>>, T)
        ELSE Reply(202, "", <<updated>>, (T \ {prev_task[1]}) \cup {updated})

update_task(task_id, json, user, U, T) ==
    LET prev_task == First({t \in T : t.id = task_id})
        task == InputTask(json)
        updated == TaskDB(task_id, task)
    IN  IF prev_task = <<>>
        THEN Reply(404, "Task does not exist.", <<>>, T)
        ELSE IF prev_task[1].user_id # user.id
        THEN Reply(403, "Not authorized to update this task", <<>>, T)
        ELSE IF ~task_row_accepted(updated, U)
        THEN Reply(500, "IntegrityError", <<>>, T)
        ELSE Reply(202, "", <<updated>>, (T \ {prev_task[1]}) \cup {updated})

(* The rows of a table scan, in rowid order *)
RECURSIVE InIdOrder(_)
InIdOrder(rows) ==
    IF rows = {} THEN <<>>
    ELSE LET r == CHOOSE x \in rows : \A y \in rows : x.id <= y.id
         IN  <<r>> \o InIdOrder(rows \ {r})

(* get_tasks without the filter on user_id *)
get_tasks_everyone(user, T) ==
    Reply(200, "", InIdOrder(T), T)

get_tasks(user, T) ==
    Reply(200, "", InIdOrder({t \in T : t.user_id = user.id}), T)

(* login and register answer with the token in place of tasks *)
(* login without the password verification *)
login_unverified(data, U, t) ==
    LET user == First({u \in U : u.email = data.email})
    IN  IF user = <<>>
        THEN [status |-> 401, detail |-> "Unable to find user", token |-> <<>>]
        ELSE [status |-> 200, detail |-> "", token |-> <<create_token(user[1].id, t)>>]

login(data, U, t) ==
    LET user == First({u \in U : u.email = data.email})
    IN  IF user = <<>>
        THEN [status |-> 401, detail |-> "Unable to find user", token |-> <<>>]
        ELSE IF ~verify_pwd(data.password, user[1].password_hash)
        THEN [status |-> 401, detail |-> "Wrong password", token |-> <<>>]
        ELSE [status |-> 200, detail |-> "", token |-> <<create_token(user[1].id, t)>>]

(* register's existence check, lines 53-54 *)
email_registered(data, U) == First({u \in U : u.email = data.email}) # <<>>

(* register from the commit on, lines 55-60 *)
register_commit(data, U, t) ==
    LET ins == insert_user(U, data.email, hash_pwd(data.password))
    IN  IF ins.error # ""
        THEN [status |-> 500, detail |-> ins.error, token |-> <<>>, users |-> U]
        ELSE [status |-> 200, detail |-> "", token |-> <<create_token(ins.id, t)>>,
              users |-> ins.users]

(* register without the existence check *)
register_unchecked(data, U, t) ==
    register_commit(data, U, t)

register(data, U, t) ==
    IF email_registered(data, U)
    THEN [status |-> 422, detail |-> "Email already registered", token |-> <<>>, users |-> U]
    ELSE register_commit(data, U, t)

-----------------------------------------------------------------------------
(* The state machine *)

(* The bearer tokens a client can send: the one it was last issued, that one *)
(* re-signed with another key, or a string that is no JWT                    *)
Presentable ==
    IF held = <<>> THEN {Malformed} ELSE {held[1], Tamper(held[1]), Malformed}

NoRequest ==
    [op |-> "", token |-> <<>>, task_id |-> 0, json |-> <<>>, data |-> <<>>,
     caller |-> 0, status |-> 0, detail |-> "", out |-> <<>>, token_out |-> <<>>]

(* Base.metadata.create_all on a new tasks.db: both tables empty *)
Init ==
    /\ users = {}
    /\ tasks = {}
    /\ now = 0
    /\ held = <<>>
    /\ pending = {}
    /\ deleted = {}
    /\ last = NoRequest

(* No response is waiting to be sent: the server takes the next request *)
Idle == last = NoRequest

(* The request and response of a task route *)
TaskAnswer(op, tok, task_id, json, auth, r) ==
    [NoRequest EXCEPT !.op = op, !.token = <<tok>>, !.task_id = task_id, !.json = json,
                      !.caller = IF auth.status = 200 THEN auth.user[1].id ELSE 0,
                      !.status = IF auth.status = 200 THEN r.status ELSE auth.status,
                      !.detail = IF auth.status = 200 THEN r.detail ELSE auth.detail,
                      !.out = IF auth.status = 200 THEN r.out ELSE <<>>]

Unauthorized == Reply(401, "", <<>>, tasks)

GetTask ==
    /\ Idle
    /\ \E tok \in Presentable, task_id \in TaskIds :
        LET auth == get_current_user(tok, users, now)
            r == IF auth.status = 200 THEN get_task(task_id, auth.user[1], tasks)
                 ELSE Unauthorized
        IN  /\ last' = TaskAnswer("GET /tasks/{id}", tok, task_id, <<>>, auth, r)
            /\ tasks' = r.tasks
            /\ UNCHANGED <<users, now, held, pending, deleted>>

CreateTask ==
    /\ Idle
    /\ \E tok \in Presentable, json \in TaskJson :
        LET auth == get_current_user(tok, users, now)
            r == IF auth.status = 200 THEN create_task(json, auth.user[1], users, tasks)
                 ELSE Unauthorized
        IN  /\ \A t \in r.tasks : t.id \in TaskIds
            /\ last' = TaskAnswer("POST /tasks/", tok, 0, <<json>>, auth, r)
            /\ tasks' = r.tasks
            /\ UNCHANGED <<users, now, held, pending, deleted>>

(* DELETE /tasks/{id}.  With history on, the ids whose DELETE was answered 202 *)
(* are remembered in deleted, which no handler reads                           *)
DeleteTaskStep(history) ==
    /\ Idle
    /\ \E tok \in Presentable, task_id \in TaskIds :
        LET auth == get_current_user(tok, users, now)
            r == IF auth.status = 200 THEN delete_task(task_id, auth.user[1], tasks)
                 ELSE Unauthorized
        IN  /\ last' = TaskAnswer("DELETE /tasks/{id}", tok, task_id, <<>>, auth, r)
            /\ tasks' = r.tasks
            /\ deleted' = IF history /\ auth.status = 200 /\ r.status = 202
                          THEN deleted \cup {task_id} ELSE deleted
            /\ UNCHANGED <<users, now, held, pending>>

DeleteTask == DeleteTaskStep(FALSE)

DeleteTaskRemembered == DeleteTaskStep(TRUE)

UpdateTask ==
    /\ Idle
    /\ \E tok \in Presentable, task_id \in TaskIds, json \in TaskJson :
        LET auth == get_current_user(tok, users, now)
            r == IF auth.status = 200
                 THEN update_task(task_id, json, auth.user[1], users, tasks)
                 ELSE Unauthorized
        IN  /\ last' = TaskAnswer("PUT /tasks/{id}", tok, task_id, <<json>>, auth, r)
            /\ tasks' = r.tasks
            /\ UNCHANGED <<users, now, held, pending, deleted>>

GetTasks ==
    /\ Idle
    /\ \E tok \in Presentable :
        LET auth == get_current_user(tok, users, now)
            r == IF auth.status = 200 THEN get_tasks(auth.user[1], tasks)
                 ELSE Unauthorized
        IN  /\ last' = TaskAnswer("GET /tasks/", tok, 0, <<>>, auth, r)
            /\ tasks' = r.tasks
            /\ UNCHANGED <<users, now, held, pending, deleted>>

(* The request and response of /login and /register *)
TokenAnswer(op, data, r) ==
    [NoRequest EXCEPT !.op = op, !.data = <<data>>, !.status = r.status,
                      !.detail = r.detail, !.token_out = r.token]

Login ==
    /\ Idle
    /\ \E data \in LoginInput :
        LET r == login(data, users, now)
        IN  /\ last' = TokenAnswer("POST /login", data, r)
            /\ held' = IF r.status = 200 THEN r.token ELSE held
            /\ UNCHANGED <<users, tasks, now, pending, deleted>>

(* /register served with no other request in between *)
Register ==
    /\ Idle
    /\ \E data \in LoginInput :
        LET r == register(data, users, now)
        IN  /\ Cardinality(r.users) <= MaxUsers
            /\ last' = TokenAnswer("POST /register", data, r)
            /\ users' = r.users
            /\ held' = IF r.status = 200 THEN r.token ELSE held
            /\ UNCHANGED <<tasks, now, pending, deleted>>

(* /register up to its existence check: answered 422, or left in flight *)
RegisterCheck ==
    /\ Idle
    /\ \E data \in LoginInput :
        IF email_registered(data, users)
        THEN /\ last' = TokenAnswer("POST /register", data, register(data, users, now))
             /\ UNCHANGED <<users, tasks, now, held, pending, deleted>>
        ELSE /\ data \notin pending
             /\ Cardinality(pending) < MaxPending
             /\ pending' = pending \cup {data}
             /\ UNCHANGED <<users, tasks, now, held, deleted, last>>

(* An in-flight /register from db.add(user); db.commit() to its response *)
RegisterCommit ==
    /\ Idle
    /\ \E data \in pending :
        LET r == register_commit(data, users, now)
        IN  /\ Cardinality(r.users) <= MaxUsers
            /\ pending' = pending \ {data}
            /\ last' = TokenAnswer("POST /register", data, r)
            /\ users' = r.users
            /\ held' = IF r.status = 200 THEN r.token ELSE held
            /\ UNCHANGED <<tasks, now, deleted>>

(* get_db's finally: the response has been sent and the request's session is *)
(* closed                                                                    *)
Deliver ==
    /\ ~Idle
    /\ last' = NoRequest
    /\ UNCHANGED <<users, tasks, now, held, pending, deleted>>

(* Time passes *)
Tick ==
    /\ Idle
    /\ now < MaxTime
    /\ now' = now + 1
    /\ UNCHANGED <<users, tasks, held, pending, deleted, last>>

Next ==
    \/ GetTask
    \/ CreateTask
    \/ DeleteTask
    \/ UpdateTask
    \/ GetTasks
    \/ Login
    \/ Register
    \/ Deliver
    \/ Tick

Spec == Init /\ [][Next]_vars

(* Requests served by several threads: a /register can be overtaken between *)
(* its check and its commit                                                 *)
NextConc ==
    \/ RegisterCheck
    \/ RegisterCommit
    \/ Login
    \/ Deliver
    \/ Tick

SpecConc == Init /\ [][NextConc]_vars

(* The sequential server with the history of deletions kept *)
NextHistory ==
    \/ GetTask
    \/ CreateTask
    \/ DeleteTaskRemembered
    \/ UpdateTask
    \/ GetTasks
    \/ Login
    \/ Register
    \/ Deliver
    \/ Tick

SpecHistory == Init /\ [][NextHistory]_vars

-----------------------------------------------------------------------------
(* Properties *)

ById == {"GET /tasks/{id}", "PUT /tasks/{id}", "DELETE /tasks/{id}"}
TaskOps == ById \cup {"POST /tasks/", "GET /tasks/"}
Elems(seq) == {seq[i] : i \in DOMAIN seq}

(* C1: a GET, PUT or DELETE on /tasks/{id} by an authenticated user for a stored *)
(* task of another user is answered 403, carries no task, and changes no task.  *)
C1_CrossUserForbidden ==
    [][(/\ last'.op \in ById
        /\ last'.caller # 0
        /\ \E t \in tasks : t.id = last'.task_id /\ t.user_id # last'.caller)
       => (/\ last'.status = 403
           /\ last'.out = <<>>
           /\ tasks' = tasks)]_vars

C1_Witness ==
    /\ last.op = "PUT /tasks/{id}"
    /\ last.status = 403
    /\ \E t \in tasks : t.id = last.task_id /\ t.user_id # last.caller

(* C2: every stored task's user_id is the id of a stored user. *)
C2_OwnerExists ==
    \A t \in tasks : \E u \in users : u.id = t.user_id

(* C3: once DELETE /tasks/{id} was answered 202 for an id, every later GET of *)
(* that id by an authenticated user is answered 404.                          *)
C3_DeletedStays404 ==
    (/\ last.op = "GET /tasks/{id}"
     /\ last.caller # 0
     /\ last.task_id \in deleted)
    => last.status = 404

(* C4: on every task route a correctly signed token past its expiry is answered *)
(* 401 "Token expired", a malformed or wrongly signed token 401 "Invalid        *)
(* token", neither detail is given for the other reason, and no task is         *)
(* returned or changed.                                                         *)
C4_TokenErrors ==
    [][last'.op \in TaskOps =>
        LET tok == last'.token[1]
            expired == tok.sig = "SECRET_KEY" /\ tok.exp < now
            invalid == tok.sig # "SECRET_KEY"
        IN  /\ expired => last'.status = 401 /\ last'.detail = "Token expired"
            /\ invalid => last'.status = 401 /\ last'.detail = "Invalid token"
            /\ last'.detail = "Token expired" => expired
            /\ last'.detail = "Invalid token" => invalid
            /\ (expired \/ invalid) =>
                   /\ last'.out = <<>>
                   /\ last'.caller = 0
                   /\ tasks' = tasks]_vars

C4_Witness ==
    /\ last.op = "PUT /tasks/{id}"
    /\ last.detail = "Token expired"
    /\ \E t \in tasks : t.id = last.task_id

(* C5: /login is answered 401 without a token when no stored user has the email *)
(* or the password does not verify against that user's hash; otherwise 200 with *)
(* a token whose subject is that user's id, and a task request carrying an      *)
(* issued, unexpired token runs as the user the token names.                    *)
C5_Login ==
    /\ last.op = "POST /login" =>
        LET d == last.data[1]
            match == {u \in users : u.email = d.email}
        IN  IF match = {} \/ \E u \in match : ~verify_pwd(d.password, u.password_hash)
            THEN last.status = 401 /\ last.token_out = <<>>
            ELSE /\ last.status = 200
                 /\ Len(last.token_out) = 1
                 /\ held = last.token_out
                 /\ \A u \in match :
                        /\ last.token_out[1].sub = Str(u.id)
                        /\ get_current_user(last.token_out[1], users, now).user = <<u>>
    /\ (last.op \in TaskOps /\ last.token = held /\ held[1].exp >= now) =>
        /\ last.caller = ParseInt(held[1].sub)
        /\ \E u \in users : u.id = last.caller

C5_Witness ==
    /\ last.op \in TaskOps
    /\ last.token = held
    /\ last.caller = 2
    /\ \E d \in LoginInput : login(d, users, now).token = held

C7_UsersUnique ==
    \A u, v \in users : (u.email = v.email \/ u.id = v.id) => u = v

C7_Witness ==
    /\ last.op = "POST /register"
    /\ last.detail = "IntegrityError"
    /\ \E u \in users : u.email = last.data[1].email

(* C8: POST /tasks/ by authenticated U naming user_id W: 422 and nothing added *)
(* if no stored user has id W; else 403 and nothing added if W is not U's id;  *)
(* else 201 and exactly one task added, with the payload's title and completed *)
(* (false when omitted), user_id U, a positive id no other stored task has,    *)
(* and that task in the response.                                              *)
C8_CreateTask ==
    [][(last'.op = "POST /tasks/" /\ last'.caller # 0) =>
        LET j == last'.json[1]
        IN  IF ~\E u \in users : u.id = j.user_id
            THEN last'.status = 422 /\ tasks' = tasks /\ last'.out = <<>>
            ELSE IF j.user_id # last'.caller
            THEN last'.status = 403 /\ tasks' = tasks /\ last'.out = <<>>
            ELSE /\ last'.status = 201
                 /\ \E t \in tasks' :
                        /\ t \notin tasks
                        /\ tasks' = tasks \cup {t}
                        /\ t.title = j.title
                        /\ t.completed = (j.completed = "true")
                        /\ t.user_id = last'.caller
                        /\ t.id > 0
                        /\ \A o \in tasks : o.id # t.id
                        /\ last'.out = <<t>>]_vars

C8_Witness ==
    /\ last.op = "POST /tasks/"
    /\ last.status = 201
    /\ last.json[1].completed = Omitted
    /\ Cardinality(tasks) = 2

(* C9: GET /tasks/ by authenticated U is answered 200 with exactly the stored *)
(* tasks whose user_id is U's id, each once.                                  *)
C9_ListOwnTasks ==
    (last.op = "GET /tasks/" /\ last.caller # 0) =>
        /\ last.status = 200
        /\ Elems(last.out) = {t \in tasks : t.user_id = last.caller}
        /\ Len(last.out) = Cardinality(Elems(last.out))

C9_Witness ==
    /\ last.op = "GET /tasks/"
    /\ Len(last.out) = 1
    /\ Cardinality(tasks) = 2

(* Rows of a table that a step added, removed or rewrote *)
Changed(old, new) ==
    {r.id : r \in (old \ new) \cup (new \ old)}

(* C10: a request commits at most one change to the stored users and tasks, and *)
(* one answered 401, 403, 404 or 422 commits none.                              *)
C10_OneCommit ==
    [][/\ Cardinality(Changed(users, users')) + Cardinality(Changed(tasks, tasks')) <= 1
       /\ last'.status \in {401, 403, 404, 422} => users' = users /\ tasks' = tasks]_vars

C10_Witness ==
    /\ last.op = "DELETE /tasks/{id}"
    /\ last.status = 403
    /\ Cardinality(tasks) = 2

(* C11: a PUT /tasks/{id} answered 202 overwrites title, completed (false when *)
(* omitted) and user_id of that task with the payload's values, keeps its id,  *)
(* leaves every other task as it was and adds or removes none; a GET of the    *)
(* same id by the same caller right after it is answered 200 with the task the *)
(* PUT returned.                                                               *)
C11_UpdateThenGet ==
    [][(last'.op = "PUT /tasks/{id}" /\ last'.status = 202) =>
        LET j == last'.json[1]
            id == last'.task_id
            written == [id |-> id, title |-> j.title,
                        completed |-> (j.completed = "true"), user_id |-> j.user_id]
        IN  /\ \E prev \in tasks :
                   /\ prev.id = id
                   /\ prev.user_id = last'.caller
                   /\ tasks' = (tasks \ {prev}) \cup {written}
            /\ Cardinality(tasks') = Cardinality(tasks)
            /\ last'.out = <<written>>
            /\ \A u \in users' : u.id = last'.caller =>
                   LET g == get_task(id, u, tasks')
                   IN  g.status = 200 /\ g.out = last'.out /\ g.tasks = tasks']_vars

====
